---- MODULE Spec2Model ----
(***************************************************************************)
(* Model of qvmc/check_braces.py: a line-by-line, character-by-character   *)
(* scan that tracks string context and a stack of open delimiters and      *)
(* prints the first imbalance found, or that the file is balanced.         *)
(***************************************************************************)
EXTENDS Integers, Sequences, FiniteSets, TLC

(* ---------------------------- bounds ----------------------------------- *)
\* at most this many characters in the file, line ends included
MaxChars == 4

(* ---------------------------- characters ------------------------------- *)
Openers == {"{", "(", "["}
Closers == {"}", ")", "]"}
Quotes == {"\"", "'"}
Newline == "\n"
Whitespace == {" ", Newline}
\* the characters of the files; the blank and the backslash are also the
\* characters that have no role outside strings
Alphabet == Openers \cup Closers \cup Quotes \cup Whitespace \cup {"/", "\\"}

\* delims with the closing symbols of ( and [ exchanged
delims_crossed == [o \in Openers |-> CASE o = "{" -> "}" [] o = "(" -> "]" [] o = "[" -> ")"]

\* delims = {'{': '}', '(': ')', '[': ']'}
delims == [o \in Openers |-> CASE o = "{" -> "}" [] o = "(" -> ")" [] o = "[" -> "]"]

\* char in delims.keys()
IsOpener(c) == c \in DOMAIN delims

\* char in delims.values()
IsCloser(c) == \E o \in DOMAIN delims : delims[o] = c

\* line.rstrip(): drop the trailing whitespace of a line
RECURSIVE rstrip(_)
rstrip(s) ==
    IF s = <<>> THEN <<>>
    ELSE IF s[Len(s)] \in Whitespace THEN rstrip(SubSeq(s, 1, Len(s) - 1))
    ELSE s

(* ---------------------------- inputs ----------------------------------- *)
\* the index of the first line end of the text t, 0 when it has none
RECURSIVE FirstNewline(_, _)
FirstNewline(t, p) ==
    IF p > Len(t) THEN 0
    ELSE IF t[p] = Newline THEN p
    ELSE FirstNewline(t, p + 1)

\* f.readlines(): the lines of the text t, each with its line end
RECURSIVE readlines(_)
readlines(t) ==
    IF t = <<>> THEN <<>>
    ELSE LET p == FirstNewline(t, 1)
         IN  IF p = 0 THEN <<t>>
             ELSE <<SubSeq(t, 1, p)>> \o readlines(SubSeq(t, p + 1, Len(t)))

(* ---------------------------- state ------------------------------------ *)
VARIABLES
    fs_exists,    \* whether open(filepath) finds the file
    file,         \* the text of the file on disk
    pc,           \* position in check_braces
    earlier,      \* the messages printed by the invocations that returned earlier
    lines,        \* lines = f.readlines()
    stack,        \* stack of (char, line, column) of the open delimiters
    in_string,
    string_char,
    in_comment,
    i,            \* index of the current line (0-based), -1 before the loop
    line,         \* line = line.rstrip()
    j,            \* index of the current character (0-based), -1 before it
    console,      \* what the current invocation has printed, one entry per message
    visited       \* the characters examined by this invocation, in order:
                  \* <<line, column, in_string when the character was reached>>

vars == <<fs_exists, file, pc, earlier, lines, stack, in_string, string_char,
          in_comment, i, line, j, console, visited>>

(* ---------------------------- messages --------------------------------- *)
FileNotFound == [kind |-> "FileNotFound"]
Balanced == [kind |-> "Balanced"]
UnmatchedCloser(c, l, k) ==
    [kind |-> "UnmatchedCloser", symbol |-> c, line |-> l, column |-> k]
MismatchedCloser(c, l, k, e, ol, oc) ==
    [kind |-> "MismatchedCloser", symbol |-> c, line |-> l, column |-> k,
     expected_symbol |-> e, opened_line |-> ol, opened_column |-> oc]
UnclosedOpeners(c, l, k, n) ==
    [kind |-> "UnclosedOpeners", innermost_symbol |-> c, innermost_line |-> l,
     innermost_column |-> k, total_count |-> n]

(* ---------------------------- the scan --------------------------------- *)
\* InitLocals keeping the variables of the invocation before (module-level state)
InitLocals_kept ==
    [stack |-> stack, in_string |-> in_string, string_char |-> string_char,
     in_comment |-> in_comment, ctl |-> "continue", msg |-> <<>>]

\* stack = []; in_string = False; string_char = ''; in_comment = False
\* (ctl: how the current iteration left the loop body; msg: what it printed)
InitLocals ==
    [stack |-> <<>>, in_string |-> FALSE, string_char |-> "",
     in_comment |-> FALSE, ctl |-> "continue", msg |-> <<>>]

\* print(...); return
Return(s, m) == [s EXCEPT !.ctl = "return", !.msg = m]

\* CommentStarts on any '/': char == '/'
CommentStarts_single(ln, k) == ln[k + 1] = "/"

\* char == '/' and j + 1 < len(line) and line[j+1] == '/'
CommentStarts(ln, k) ==
    /\ ln[k + 1] = "/"
    /\ k + 1 < Len(ln)
    /\ ln[k + 2] = "/"

\* the number of backslashes that end the first k characters of ln
RECURSIVE BackslashesBefore(_, _)
BackslashesBefore(ln, k) ==
    IF k > 0 /\ ln[k] = "\\" THEN 1 + BackslashesBefore(ln, k - 1) ELSE 0

\* Escaped pairing the backslashes: an escaped backslash escapes nothing
Escaped_paired(ln, k) == BackslashesBefore(ln, k) % 2 = 1

\* j > 0 and line[j-1] == '\\'
Escaped(ln, k) == k > 0 /\ ln[k] = "\\"

\* QuoteChar without the test: elif char == string_char
QuoteChar_anyquote(s, ln, k) ==
    LET char == ln[k + 1]
    IN  IF ~s.in_string
        THEN [s EXCEPT !.in_string = TRUE, !.string_char = char]
        ELSE (IF Escaped(ln, k) THEN s ELSE [s EXCEPT !.in_string = FALSE])

\* if char in '"\'': ... continue
QuoteChar(s, ln, k) ==
    LET char == ln[k + 1]
    IN  IF ~s.in_string
        THEN [s EXCEPT !.in_string = TRUE, !.string_char = char]
        ELSE IF char = s.string_char
        THEN (IF Escaped(ln, k) THEN s ELSE [s EXCEPT !.in_string = FALSE])
        ELSE s

\* PushOpener recording the 0-based indices: stack.append((char, i, j))
PushOpener_index(s, char, ii, k) ==
    [s EXCEPT !.stack = Append(s.stack, <<char, ii, k>>)]

\* stack.append((char, i + 1, j + 1))
PushOpener(s, char, ii, k) ==
    [s EXCEPT !.stack = Append(s.stack, <<char, ii + 1, k + 1>>)]

\* CloseDelim reporting the 0-based column index of an unmatched closer
CloseDelim_index(s, char, ii, k) ==
    IF s.stack = <<>>
    THEN Return(s, UnmatchedCloser(char, ii + 1, k))
    ELSE LET top == s.stack[Len(s.stack)]
             expected_end == delims[top[1]]
             popped == [s EXCEPT !.stack = SubSeq(s.stack, 1, Len(s.stack) - 1)]
         IN  IF char # expected_end
             THEN Return(popped, MismatchedCloser(char, ii + 1, k + 1, expected_end,
                                                  top[2], top[3]))
             ELSE popped

\* CloseDelim reading the top record (stack[-1]) without popping it
CloseDelim_peek(s, char, ii, k) ==
    IF s.stack = <<>>
    THEN Return(s, UnmatchedCloser(char, ii + 1, k + 1))
    ELSE LET top == s.stack[Len(s.stack)]
             expected_end == delims[top[1]]
         IN  IF char # expected_end
             THEN Return(s, MismatchedCloser(char, ii + 1, k + 1, expected_end,
                                             top[2], top[3]))
             ELSE s

\* CloseDelim popping without comparing the closer with the expected one
CloseDelim_anycloser(s, char, ii, k) ==
    IF s.stack = <<>>
    THEN Return(s, UnmatchedCloser(char, ii + 1, k + 1))
    ELSE [s EXCEPT !.stack = SubSeq(s.stack, 1, Len(s.stack) - 1)]

\* elif char in delims.values(): unmatched, mismatched or matched closer
CloseDelim(s, char, ii, k) ==
    IF s.stack = <<>>
    THEN Return(s, UnmatchedCloser(char, ii + 1, k + 1))
    ELSE LET top == s.stack[Len(s.stack)]
             start_char == top[1]
             start_line == top[2]
             start_col == top[3]
             expected_end == delims[start_char]
             popped == [s EXCEPT !.stack = SubSeq(s.stack, 1, Len(s.stack) - 1)]
         IN  IF char # expected_end
             THEN Return(popped, MismatchedCloser(char, ii + 1, k + 1, expected_end,
                                                  start_line, start_col))
             ELSE popped

\* CharBody without the test: if in_string: continue
CharBody_nostring(s, ln, ii, k) ==
    LET char == ln[k + 1]
    IN  IF s.in_comment THEN s
        ELSE IF CommentStarts(ln, k) THEN [s EXCEPT !.ctl = "break"]
        ELSE IF char \in Quotes THEN QuoteChar(s, ln, k)
        ELSE IF IsOpener(char) THEN PushOpener(s, char, ii, k)
        ELSE IF IsCloser(char) THEN CloseDelim(s, char, ii, k)
        ELSE s

\* CharBody testing for an opening symbol before testing in_string
CharBody_pushfirst(s, ln, ii, k) ==
    LET char == ln[k + 1]
    IN  IF s.in_comment THEN s
        ELSE IF CommentStarts(ln, k) THEN [s EXCEPT !.ctl = "break"]
        ELSE IF char \in Quotes THEN QuoteChar(s, ln, k)
        ELSE IF IsOpener(char) THEN PushOpener(s, char, ii, k)
        ELSE IF s.in_string THEN s
        ELSE IF IsCloser(char) THEN CloseDelim(s, char, ii, k)
        ELSE s

\* CharBody testing for a closing symbol before testing in_string
CharBody_closefirst(s, ln, ii, k) ==
    LET char == ln[k + 1]
    IN  IF s.in_comment THEN s
        ELSE IF CommentStarts(ln, k) THEN [s EXCEPT !.ctl = "break"]
        ELSE IF char \in Quotes THEN QuoteChar(s, ln, k)
        ELSE IF IsCloser(char) THEN CloseDelim(s, char, ii, k)
        ELSE IF s.in_string THEN s
        ELSE IF IsOpener(char) THEN PushOpener(s, char, ii, k)
        ELSE s

\* CharBody testing for quotes and in_string before testing for '//'
CharBody_stringfirst(s, ln, ii, k) ==
    LET char == ln[k + 1]
    IN  IF s.in_comment THEN s
        ELSE IF char \in Quotes THEN QuoteChar(s, ln, k)
        ELSE IF s.in_string THEN s
        ELSE IF CommentStarts(ln, k) THEN [s EXCEPT !.ctl = "break"]
        ELSE IF IsOpener(char) THEN PushOpener(s, char, ii, k)
        ELSE IF IsCloser(char) THEN CloseDelim(s, char, ii, k)
        ELSE s

\* CharBody setting in_comment at '//' and skipping while it is set
CharBody_setcomment(s, ln, ii, k) ==
    LET char == ln[k + 1]
    IN  IF s.in_comment THEN s
        ELSE IF CommentStarts(ln, k) THEN [s EXCEPT !.in_comment = TRUE]
        ELSE IF char \in Quotes THEN QuoteChar(s, ln, k)
        ELSE IF s.in_string THEN s
        ELSE IF IsOpener(char) THEN PushOpener(s, char, ii, k)
        ELSE IF IsCloser(char) THEN CloseDelim(s, char, ii, k)
        ELSE s

\* the body of: for j, char in enumerate(line), at line index ii, column index k
CharBody(s, ln, ii, k) ==
    LET char == ln[k + 1]
    IN  IF s.in_comment THEN s
        ELSE IF CommentStarts(ln, k) THEN [s EXCEPT !.ctl = "break"]
        ELSE IF char \in Quotes THEN QuoteChar(s, ln, k)
        ELSE IF s.in_string THEN s
        ELSE IF IsOpener(char) THEN PushOpener(s, char, ii, k)
        ELSE IF IsCloser(char) THEN CloseDelim(s, char, ii, k)
        ELSE s

\* FinishMsg reporting the oldest open delimiter (stack[0])
FinishMsg_oldest(stk) ==
    IF stk # <<>>
    THEN UnclosedOpeners(stk[1][1], stk[1][2], stk[1][3], Len(stk))
    ELSE Balanced

\* if stack: print Unclosed ..., Total unclosed ... else: print balanced
FinishMsg(stk) ==
    IF stk # <<>>
    THEN LET top == stk[Len(stk)]
         IN  UnclosedOpeners(top[1], top[2], top[3], Len(stk))
    ELSE Balanced

\* the inner loop over the characters of the stripped line ln, from index k
RECURSIVE ScanLine(_, _, _, _)
ScanLine(s, ln, ii, k) ==
    IF ~(k < Len(ln)) THEN s
    ELSE LET r == CharBody(s, ln, ii, k)
         IN  IF r.ctl = "continue" THEN ScanLine(r, ln, ii, k + 1) ELSE r

\* the outer loop over the lines ls, from index ii
RECURSIVE ScanLines(_, _, _)
ScanLines(s, ls, ii) ==
    IF ~(ii < Len(ls)) THEN s
    ELSE LET r == ScanLine(s, rstrip(ls[ii + 1]), ii, 0)
         IN  IF r.ctl = "return" THEN r
             ELSE ScanLines([r EXCEPT !.ctl = "continue"], ls, ii + 1)

\* what check_braces prints for a file that holds the lines ls
ScanResult(ls) ==
    LET r == ScanLines(InitLocals, ls, 0)
    IN  IF r.ctl = "return" THEN r.msg ELSE FinishMsg(r.stack)

(* ---------------------------- operations ------------------------------- *)
print(m) == console' = Append(console, m)

\* the local variables of the running invocation
Locals ==
    [stack |-> stack, in_string |-> in_string, string_char |-> string_char,
     in_comment |-> in_comment, ctl |-> "continue", msg |-> <<>>]

SetLocals(s) ==
    /\ stack' = s.stack
    /\ in_string' = s.in_string
    /\ string_char' = s.string_char
    /\ in_comment' = s.in_comment

Init ==
    /\ fs_exists \in BOOLEAN
    /\ IF fs_exists
       THEN \E n \in 0..MaxChars : file \in [1..n -> Alphabet]
       ELSE file = <<>>
    /\ pc = "open"
    /\ earlier = {}
    /\ lines = <<>>
    /\ stack = <<>>
    /\ in_string = FALSE
    /\ string_char = ""
    /\ in_comment = FALSE
    /\ i = -1
    /\ line = <<>>
    /\ j = -1
    /\ console = <<>>
    /\ visited = <<>>

\* OpenFile going on with no lines after the message, instead of returning
OpenFile_noreturn ==
    /\ pc = "open"
    /\ lines' = (IF fs_exists THEN readlines(file) ELSE <<>>)
    /\ IF fs_exists THEN UNCHANGED console ELSE print(FileNotFound)
    /\ SetLocals(InitLocals)
    /\ i' = -1
    /\ pc' = "for_line"
    /\ visited' = <<>>
    /\ UNCHANGED <<fs_exists, file, earlier, line, j>>

\* try: open, readlines / except FileNotFoundError: print, return
OpenFile ==
    /\ pc = "open"
    /\ IF fs_exists
       THEN /\ lines' = readlines(file)
            /\ SetLocals(InitLocals)
            /\ i' = -1
            /\ pc' = "for_line"
            /\ UNCHANGED console
       ELSE /\ print(FileNotFound)
            /\ pc' = "done"
            /\ UNCHANGED <<lines, stack, in_string, string_char, in_comment, i>>
    /\ visited' = <<>>
    /\ UNCHANGED <<fs_exists, file, earlier, line, j>>

\* ForLine taking the same line again instead of the next one
ForLine_again ==
    /\ pc = "for_line"
    /\ IF i + 1 < Len(lines)
       THEN /\ i' = (IF i < 0 THEN 0 ELSE i)
            /\ line' = rstrip(lines[i' + 1])
            /\ j' = -1
            /\ pc' = "for_char"
       ELSE /\ pc' = "end"
            /\ UNCHANGED <<i, line, j>>
    /\ UNCHANGED <<fs_exists, file, earlier, lines, stack, in_string, string_char,
                   in_comment, console, visited>>

\* ForLine ending an open string with the line before
ForLine_endstring ==
    /\ pc = "for_line"
    /\ IF i + 1 < Len(lines)
       THEN /\ i' = i + 1
            /\ line' = rstrip(lines[i + 2])
            /\ j' = -1
            /\ pc' = "for_char"
            /\ in_string' = FALSE
       ELSE /\ pc' = "end"
            /\ UNCHANGED <<i, line, j, in_string>>
    /\ UNCHANGED <<fs_exists, file, earlier, lines, stack, string_char,
                   in_comment, console, visited>>

\* for i, line in enumerate(lines): line = line.rstrip()
ForLine ==
    /\ pc = "for_line"
    /\ IF i + 1 < Len(lines)
       THEN /\ i' = i + 1
            /\ line' = rstrip(lines[i + 2])
            /\ j' = -1
            /\ pc' = "for_char"
       ELSE /\ pc' = "end"
            /\ UNCHANGED <<i, line, j>>
    /\ UNCHANGED <<fs_exists, file, earlier, lines, stack, in_string, string_char,
                   in_comment, console, visited>>

\* ScanChar going on with the line after printing, instead of returning
ScanChar_recover ==
    /\ pc = "for_char"
    /\ j + 1 < Len(line)
    /\ j' = j + 1
    /\ visited' = Append(visited, <<i + 1, j + 2, in_string>>)
    /\ LET r == CharBody(Locals, line, i, j + 1)
       IN  /\ SetLocals(r)
           /\ pc' = CASE r.ctl = "continue" -> "for_char"
                      [] r.ctl = "break" -> "for_line"
                      [] r.ctl = "return" -> "for_char"
           /\ IF r.ctl = "return" THEN print(r.msg) ELSE UNCHANGED console
    /\ UNCHANGED <<fs_exists, file, earlier, lines, i, line>>

\* one iteration of the inner loop: for j, char in enumerate(line)
ScanChar ==
    /\ pc = "for_char"
    /\ j + 1 < Len(line)
    /\ j' = j + 1
    /\ visited' = Append(visited, <<i + 1, j + 2, in_string>>)
    /\ LET r == CharBody(Locals, line, i, j + 1)
       IN  /\ SetLocals(r)
           /\ pc' = CASE r.ctl = "continue" -> "for_char"
                      [] r.ctl = "break" -> "for_line"
                      [] r.ctl = "return" -> "done"
           /\ IF r.ctl = "return" THEN print(r.msg) ELSE UNCHANGED console
    /\ UNCHANGED <<fs_exists, file, earlier, lines, i, line>>

\* the inner loop is exhausted
EndOfLine ==
    /\ pc = "for_char"
    /\ ~(j + 1 < Len(line))
    /\ pc' = "for_line"
    /\ UNCHANGED <<fs_exists, file, earlier, lines, stack, in_string, string_char,
                   in_comment, i, line, j, console, visited>>

\* after the loops: report the unclosed delimiters, or balance
Finish ==
    /\ pc = "end"
    /\ print(FinishMsg(stack))
    /\ pc' = "done"
    /\ UNCHANGED <<fs_exists, file, earlier, lines, stack, in_string, string_char,
                   in_comment, i, line, j, visited>>

\* check_braces is called again on the same path
Reinvoke ==
    /\ pc = "done"
    /\ earlier' = earlier \cup {console}
    /\ console' = <<>>
    /\ pc' = "open"
    /\ UNCHANGED <<fs_exists, file, lines, stack, in_string, string_char,
                   in_comment, i, line, j, visited>>

Next == OpenFile \/ ForLine \/ ScanChar \/ EndOfLine \/ Finish \/ Reinvoke

Spec == Init /\ [][Next]_vars

(* ---------------------------- vocabulary of the properties ------------- *)
\* an invocation that scanned the file has returned
ScanDone == pc = "done" /\ fs_exists

\* the message of the latest invocation that returned
Result == console[Len(console)]

\* the state machine and the loops computed as one function agree
ScanAgrees == ScanDone => Result = ScanResult(readlines(file))

\* the delimiter pairs of the data model: { with }, ( with ), [ with ]
Pairs == {<<"{", "}">>, <<"(", ")">>, <<"[", "]">>}

\* the closing symbol paired with the opening symbol o
ClosingOf(o) == CHOOSE c \in Closers : <<o, c>> \in Pairs

\* the characters of the lines ls, one line after the other
RECURSIVE Flatten(_)
Flatten(ls) == IF ls = <<>> THEN <<>> ELSE Head(ls) \o Flatten(Tail(ls))

IsDelimiter(c) == c \in Openers \cup Closers

\* the delimiter characters of the lines ls, in order
DelimitersOf(ls) == SelectSeq(Flatten(ls), IsDelimiter)

\* t is a well-formed nesting: deleting adjacent pairs reduces t to nothing
RECURSIVE WellNested(_)
WellNested(t) ==
    \/ t = <<>>
    \/ \E p \in 1..(Len(t) - 1) :
          /\ <<t[p], t[p + 1]>> \in Pairs
          /\ WellNested(SubSeq(t, 1, p - 1) \o SubSeq(t, p + 2, Len(t)))

NoQuote(ls) == \A l \in 1..Len(ls) : \A c \in 1..Len(ls[l]) : ls[l][c] \notin Quotes

\* position c of line ln lies behind a '//' of that line
BehindComment(ln, c) == \E p \in 1..(c - 1) : p + 1 <= Len(ln) /\ ln[p] = "/" /\ ln[p + 1] = "/"

NoSlashSlash(ls) ==
    \A l \in 1..Len(ls) : \A c \in 1..(Len(ls[l]) - 1) : ~(ls[l][c] = "/" /\ ls[l][c + 1] = "/")

(* ---------------------------- C1 --------------------------------------- *)
\* C1: a file whose delimiters form a well-formed nesting of the three pairs,
\* however it is split into lines, and that holds no quote character and no
\* '//', is reported Balanced.
C1_WellNestedIsBalanced ==
    /\ []((ScanDone /\ NoQuote(lines) /\ NoSlashSlash(lines) /\ WellNested(DelimitersOf(lines)))
            => Result = Balanced)
    /\ ScanResult(readlines(<<"(", "[", "{", "}", "]", ")">>)) = Balanced

\* a nesting of depth two of two different pairs, split over two lines
C1_Witness ==
    /\ ScanDone
    /\ DelimitersOf(lines) = <<"(", "[", "]", ")">>
    /\ Result = Balanced

(* ---------------------------- the character being scanned -------------- *)
\* the inner loop is about to scan a character
Scanning == pc = "for_char" /\ j + 1 < Len(line)

\* that character, and its 1-based line and column
NextChar == line[j + 2]
NextLine == i + 1
NextColumn == j + 2

\* that character lies outside string and comment context
OutsideStringAndComment ==
    ~in_string /\ ~in_comment /\ ~BehindComment(line, NextColumn)

\* a closing symbol is about to be scanned outside string and comment context
ScanningCloser == Scanning /\ NextChar \in Closers /\ OutsideStringAndComment

TopRecord == stack[Len(stack)]

(* ---------------------------- C2 --------------------------------------- *)
\* C2: a closing symbol scanned outside string and comment context on an empty
\* stack ends the scan at once with UnmatchedCloser carrying that symbol and
\* its 1-based line and column in the file; the file ')' gives
\* UnmatchedCloser(')', 1, 1).
C2_UnmatchedCloser ==
    /\ [][(ScanningCloser /\ stack = <<>>)
            => /\ pc' = "done"
               /\ console' = Append(console, UnmatchedCloser(NextChar, NextLine, NextColumn))
               /\ readlines(file)[NextLine][NextColumn] = NextChar]_vars
    /\ []((ScanDone /\ file = <<")">>) => Result = UnmatchedCloser(")", 1, 1))

\* an unmatched closer in the second column of the second line
C2_Witness ==
    /\ ScanDone
    /\ Result.kind = "UnmatchedCloser"
    /\ Result.line = 2
    /\ Result.column = 2

(* ---------------------------- C3 --------------------------------------- *)
\* C3: a closing symbol scanned outside string and comment context on a
\* non-empty stack pops the top record; if the closer paired with the popped
\* opener differs from it the scan ends at once with MismatchedCloser (the
\* closer and its position, the expected closer, the position stored in the
\* popped record), else the scan goes on with the stack one record shorter;
\* the file '(]' gives MismatchedCloser(']', 1, 2, ')', 1, 1).
C3_PopAndCompare ==
    /\ [][(ScanningCloser /\ stack # <<>>)
            => /\ stack' = SubSeq(stack, 1, Len(stack) - 1)
               /\ IF ClosingOf(TopRecord[1]) # NextChar
                  THEN /\ pc' = "done"
                       /\ console' = Append(console,
                              MismatchedCloser(NextChar, NextLine, NextColumn,
                                               ClosingOf(TopRecord[1]),
                                               TopRecord[2], TopRecord[3]))
                  ELSE /\ pc' = "for_char"
                       /\ console' = console]_vars
    /\ []((ScanDone /\ file = <<"(", "]">>)
            => Result = MismatchedCloser("]", 1, 2, ")", 1, 1))

\* a closer on the second line mismatches an opener of the first line that is
\* not the only open delimiter
C3_Witness ==
    /\ ScanDone
    /\ Result.kind = "MismatchedCloser"
    /\ Result.opened_line = 1
    /\ Result.line = 2
    /\ stack # <<>>

(* ---------------------------- C4 --------------------------------------- *)
\* C4: when all lines are consumed without an unmatched or mismatched closer,
\* the result is UnclosedOpeners iff the stack is non-empty, with the
\* top-of-stack record as innermost symbol, line and column and the stack size
\* as total count, and Balanced iff the stack is empty; the file '(' gives
\* UnclosedOpeners('(', 1, 1, 1).
C4_EndOfInput ==
    /\ [][(pc = "for_line" /\ ~(i + 1 < Len(lines)))
            => /\ console' = console
               /\ stack' = stack
               /\ pc' = "end"]_vars
    /\ [][pc = "end"
            => /\ pc' = "done"
               /\ console' = Append(console,
                      IF stack # <<>>
                      THEN UnclosedOpeners(TopRecord[1], TopRecord[2], TopRecord[3],
                                           Len(stack))
                      ELSE Balanced)]_vars
    /\ [](pc = "end" => console = <<>> /\ i + 1 = Len(lines))
    /\ []((ScanDone /\ file = <<"(">>) => Result = UnclosedOpeners("(", 1, 1, 1))

\* two delimiters are left open, the innermost on the second line
C4_Witness ==
    /\ ScanDone
    /\ Result.kind = "UnclosedOpeners"
    /\ Result.total_count = 2
    /\ Result.innermost_line = 2
    /\ stack[1][2] = 1

(* ---------------------------- C5 --------------------------------------- *)
CloserErrors == {"UnmatchedCloser", "MismatchedCloser"}

\* the scan has returned with an unmatched or mismatched closer
CloserReported == ScanDone /\ Result.kind \in CloserErrors

\* the number of characters of the lines ls up to column c of line l
RECURSIVE Offset(_, _, _)
Offset(ls, l, c) == IF l <= 1 THEN c ELSE Len(Head(ls)) + Offset(Tail(ls), l - 1, c)

\* where the reported closer stands in the text of the file
CloserOffset == Offset(lines, Result.line, Result.column)

\* the texts that are the text t followed by anything
Continuations(t) ==
    UNION {{t \o u : u \in [1..n -> Alphabet]} : n \in 0..(MaxChars - Len(t))}

\* C5: the scan stops at the first unmatched or mismatched closer: the step
\* that reports it returns, the closer is the last character examined, one
\* message is printed per invocation (so neither UnclosedOpeners nor Balanced
\* follows, even with openers left on the stack), and the result depends only
\* on the text up to and including that closer: that text alone, and that text
\* followed by anything, give the same result.
C5_StopsAtFirstCloserError ==
    /\ [][(console' # console /\ console' # <<>>
             /\ console'[Len(console')].kind \in CloserErrors) => pc' = "done"]_vars
    /\ [][pc = "done" => (visited' = visited /\ stack' = stack /\ console' = <<>>)]_vars
    /\ [](IF pc = "done" THEN Len(console) = 1 ELSE console = <<>>)
    /\ [](CloserReported
            => /\ visited # <<>>
               /\ SubSeq(visited[Len(visited)], 1, 2) = <<Result.line, Result.column>>
               /\ ScanResult(readlines(SubSeq(file, 1, CloserOffset))) = Result)
    /\ []((CloserReported /\ CloserOffset = Len(file))
            => \A t \in Continuations(file) : ScanResult(readlines(t)) = Result)

\* a mismatched closer is reported while an opener is still on the stack and
\* the file goes on after the closer
C5_Witness ==
    /\ CloserReported
    /\ stack # <<>>
    /\ CloserOffset < Len(file)
    /\ file[CloserOffset + 1] \in Closers

(* ---------------------------- C6 --------------------------------------- *)
\* C6: in string mode, scanning one of the six delimiter characters leaves the
\* stack unchanged and prints nothing (and the scan goes on in string mode);
\* hence a file that is a quote, then anything but that quote, then that quote
\* again is Balanced, as is "(" in double quotes.
C6_DelimitersInStringIgnored ==
    /\ [][(Scanning /\ in_string /\ IsDelimiter(NextChar))
            => /\ stack' = stack
               /\ console' = console
               /\ in_string' /\ string_char' = string_char
               /\ pc' = "for_char"]_vars
    /\ []((/\ ScanDone
           /\ Len(file) >= 2
           /\ file[1] \in Quotes
           /\ file[Len(file)] = file[1]
           /\ \A p \in 2..(Len(file) - 1) : file[p] # file[1])
            => Result = Balanced)
    /\ []((ScanDone /\ file = <<"\"", "(", "\"">>) => Result = Balanced)

\* an unbalanced pair of delimiters between two single quotes
C6_Witness ==
    /\ ScanDone
    /\ file = <<"'", "(", "]", "'">>
    /\ Result = Balanced
    /\ ~in_string

(* ---------------------------- C7 --------------------------------------- *)
\* the character about to be scanned and the next one of the line are both '/'
ScanningSlashSlash ==
    Scanning /\ NextChar = "/" /\ NextColumn < Len(line) /\ line[NextColumn + 1] = "/"

\* C7: when the current and the next character of the line are both '/', no
\* further character of that line is inspected, and stack, string flag and
\* recorded quote are at the start of the next line what they were before the
\* '//'; the comment ends with the line, whose successor is scanned from its
\* first character ('//' then ')' gives UnmatchedCloser at line 2, column 1,
\* as do '// (' then ')'); a '/' that ends its line or is not followed by '/'
\* starts no comment.
C7_LineComment ==
    /\ [][ScanningSlashSlash
            => /\ pc' = "for_line"
               /\ stack' = stack
               /\ in_string' = in_string /\ string_char' = string_char
               /\ console' = console]_vars
    /\ [][pc = "for_line"
            => /\ stack' = stack
               /\ in_string' = in_string /\ string_char' = string_char
               /\ in_comment' = in_comment]_vars
    /\ [](\A v \in 1..Len(visited) : ~BehindComment(lines[visited[v][1]], visited[v][2]))
    /\ [][(pc = "for_char" /\ j = -1 /\ Len(line) > 0)
            => (~in_comment /\ visited' = Append(visited, <<i + 1, 1, in_string>>))]_vars
    /\ [][(Scanning /\ NextChar = "/" /\ ~ScanningSlashSlash)
            => (pc' = "for_char" /\ j' = j + 1)]_vars
    /\ []((ScanDone /\ file = <<"/", "/", Newline, ")">>)
            => Result = UnmatchedCloser(")", 2, 1))
    /\ ScanResult(readlines(<<"/", "/", " ", "(", Newline, ")">>)) = UnmatchedCloser(")", 2, 1)
    /\ ScanResult(readlines(<<"/", "/", " ", "(">>)) = Balanced

\* a '//' follows an opener and hides the closer behind it
C7_Witness ==
    /\ ScanDone
    /\ file = <<"(", "/", "/", ")">>
    /\ Len(visited) = 2
    /\ Result = UnclosedOpeners("(", 1, 1, 1)

(* ---------------------------- C8 --------------------------------------- *)
\* no delimiter has been scanned outside string context so far (what follows
\* a '//' on its line is never scanned)
NoDelimiterScannedOutside ==
    \A v \in 1..Len(visited) :
        IsDelimiter(lines[visited[v][1]][visited[v][2]]) => visited[v][3]

\* C8: as long as no delimiter character is scanned outside string context and
\* outside the part of a line that follows '//', the stack stays empty, and a
\* scan that ends so is Balanced.
C8_NoDelimitersIsBalanced ==
    (fs_exists /\ pc # "open" /\ NoDelimiterScannedOutside)
        => (stack = <<>> /\ (pc = "done" => Result = Balanced))

\* delimiters are scanned, all of them inside a string, and the string is closed
C8_Witness ==
    /\ ScanDone
    /\ NoDelimiterScannedOutside
    /\ \E v \in 1..Len(visited) : lines[visited[v][1]][visited[v][2]] \in Closers
    /\ \E v \in 1..Len(visited) : lines[visited[v][1]][visited[v][2]] \in Openers
    /\ ~in_string
    /\ Result = Balanced

Results == {"Balanced", "UnmatchedCloser", "MismatchedCloser", "UnclosedOpeners"}

\* position a comes before position b in line order, then column order
Before(a, b) == a[1] < b[1] \/ (a[1] = b[1] /\ a[2] < b[2])

\* the lines of ls from index k on cost at most this many steps
RECURSIVE StepsFor(_, _)
StepsFor(ls, k) == IF k > Len(ls) THEN 0 ELSE Len(ls[k]) + 2 + StepsFor(ls, k + 1)

\* an upper bound of the number of steps the invocation has left
StepsLeft ==
    CASE pc = "done" -> 0
      [] pc = "end" -> 1
      [] pc = "for_line" -> 2 + StepsFor(lines, i + 2)
      [] pc = "for_char" -> 3 + StepsFor(lines, i + 2) + (Len(line) - (j + 1))
      [] pc = "open" -> 3 + StepsFor(readlines(file), 1)

\* C10: the scan terminates (every step of an invocation lowers a bound of the
\* steps left, and a step is possible until it returns) after one pass that
\* examines characters in line order then column order, none twice, with
\* exactly one of the four results.
C10_OnePassOneResult ==
    /\ [][pc # "done" => StepsLeft' < StepsLeft]_vars
    /\ [](StepsLeft >= 0)
    /\ [](pc # "done" => ENABLED Next)
    /\ [](\A a, b \in 1..Len(visited) : a < b => Before(visited[a], visited[b]))
    /\ [](\A v \in 1..Len(visited) :
            /\ visited[v][1] \in 1..Len(lines)
            /\ visited[v][2] \in 1..Len(lines[visited[v][1]]))
    /\ [](ScanDone => (Len(console) = 1 /\ Result.kind \in Results))

\* a scan of two lines has examined characters of both and returned
C10_Witness ==
    /\ ScanDone
    /\ Len(lines) = 2
    /\ Len(visited) = 3
    /\ visited[1][1] = 1
    /\ visited[3][1] = 2

(* ---------------------------- C11 -------------------------------------- *)
\* C11: when the file is not found the invocation ends with FileNotFound
\* before any scanning: the opening step prints it and returns, no character
\* is examined, no lines are read, the stack is not touched, and none of the
\* four scan results is printed, by this invocation or a later one.
C11_FileNotFound ==
    /\ [][(pc = "open" /\ ~fs_exists)
            => /\ pc' = "done"
               /\ console' = <<FileNotFound>>
               /\ stack' = stack /\ lines' = lines
               /\ visited' = <<>>]_vars
    /\ [](~fs_exists
            => /\ pc \in {"open", "done"}
               /\ visited = <<>> /\ stack = <<>> /\ lines = <<>>
               /\ (pc = "done" => console = <<FileNotFound>>)
               /\ (pc = "open" => console = <<>>)
               /\ earlier \subseteq {<<FileNotFound>>})
    /\ [](fs_exists => \A m \in 1..Len(console) : console[m].kind \in Results)

\* a second invocation on the missing file has returned as the first did
C11_Witness ==
    /\ ~fs_exists
    /\ pc = "done"
    /\ console = <<FileNotFound>>
    /\ earlier = {<<FileNotFound>>}

(* ---------------------------- C12 -------------------------------------- *)
\* the character examined as the v-th of this invocation
VisitedChar(v) == lines[visited[v][1]][visited[v][2]]

\* the opening symbols pushed so far: those examined outside string context
Pushed ==
    Cardinality({v \in 1..Len(visited) : VisitedChar(v) \in Openers /\ ~visited[v][3]})

\* the closing symbols examined outside string context so far
ClosersOutside ==
    Cardinality({v \in 1..Len(visited) : VisitedChar(v) \in Closers /\ ~visited[v][3]})

\* those of them that popped a record: all but an unmatched one, which ends the scan
Popped ==
    ClosersOutside - (IF pc = "done" /\ Result.kind = "UnmatchedCloser" THEN 1 ELSE 0)

\* C12: the stack size is the number of opening symbols pushed minus the number
\* of closing symbols that popped a record; an empty stack is never popped;
\* a scanned character changes the size by at most one: +1 (a record appended)
\* exactly for an opener outside string and comment context, -1 (the top record
\* removed) exactly for a closer outside them on a non-empty stack; no other
\* step of the scan changes the stack.
C12_StackDiscipline ==
    /\ []((fs_exists /\ pc # "open") => (Len(stack) = Pushed - Popped /\ Popped >= 0))
    /\ [][Scanning
            => /\ Len(stack') - Len(stack) \in {-1, 0, 1}
               /\ (Len(stack') = Len(stack) + 1)
                    <=> (NextChar \in Openers /\ OutsideStringAndComment)
               /\ (Len(stack') = Len(stack) - 1)
                    <=> (ScanningCloser /\ stack # <<>>)
               /\ (Len(stack') > Len(stack)) => SubSeq(stack', 1, Len(stack)) = stack
               /\ (Len(stack') < Len(stack)) => stack' = SubSeq(stack, 1, Len(stack'))
               /\ (Len(stack') = Len(stack)) => stack' = stack]_vars
    /\ [][(ScanningCloser /\ stack = <<>>) => stack' = <<>>]_vars
    /\ [][(~Scanning /\ pc # "open") => stack' = stack]_vars

\* two openers were pushed and one of them was popped
C12_Witness ==
    /\ ScanDone
    /\ Pushed = 2
    /\ Popped = 1
    /\ Len(stack) = 1

(* ---------------------------- C13 -------------------------------------- *)
\* C13: string mode persists across line boundaries: the steps that end a line
\* and begin the next keep the string flag and the recorded quote, so a file
\* that opens a string with a quote that never returns is Balanced whatever
\* its later lines hold, as are the lines '"' and '('.
C13_StringAcrossLines ==
    /\ [][(pc = "for_line" \/ (pc = "for_char" /\ ~Scanning))
            => (in_string' = in_string /\ string_char' = string_char)]_vars
    /\ []((/\ ScanDone
           /\ Len(file) >= 1
           /\ file[1] \in Quotes
           /\ \A p \in 2..Len(file) : file[p] # file[1])
            => (Result = Balanced /\ in_string /\ string_char = file[1]))
    /\ []((ScanDone /\ file = <<"\"", Newline, "(">>) => Result = Balanced)

\* a closer on the second line is reached in the string opened on the first
C13_Witness ==
    /\ ScanDone
    /\ \E v \in 1..Len(visited) :
          visited[v][1] = 2 /\ visited[v][3] /\ VisitedChar(v) \in Closers
    /\ Result = Balanced

(* ---------------------------- C14 -------------------------------------- *)
\* the quote that opened the string is about to be scanned in string mode
ScanningClosingQuote == Scanning /\ in_string /\ NextChar = string_char

\* the character before the one about to be scanned, on its line, is a backslash
AfterBackslash == NextColumn > 1 /\ line[NextColumn - 1] = "\\"

\* C14: in string mode the recorded quote exits string mode unless the
\* character just before it on the same line is a backslash; one character is
\* looked at, so a quote after two backslashes still counts as escaped, and
\* the recorded quote in column 1 always exits string mode.
C14_NaiveEscape ==
    /\ [][ScanningClosingQuote
            => /\ in_string' <=> AfterBackslash
               /\ string_char' = string_char
               /\ NextColumn = 1 => ~in_string']_vars
    /\ []((ScanDone /\ file = <<"\"", "\\", "\\", "\"">>) => in_string)
    /\ []((ScanDone /\ file = <<"'", "\\", Newline, "'">>) => ~in_string)
    /\ ScanResult(readlines(<<"\"", "\\", "\\", "\"", "(">>)) = Balanced
    /\ ScanResult(readlines(<<"\"", "\\", Newline, "\"", "(">>)) = UnclosedOpeners("(", 2, 2, 1)

\* a quote after two backslashes has been scanned and the string is still open
C14_Witness ==
    /\ ScanDone
    /\ file = <<"'", "\\", "\\", "'">>
    /\ Len(visited) = 4
    /\ in_string

(* ---------------------------- C15 -------------------------------------- *)
\* C15: scanning a quote character never changes the stack and never prints;
\* outside string mode it enters string mode and records that quote; in string
\* mode a quote other than the recorded one leaves flag and recorded quote alone.
C15_QuoteSteps ==
    /\ [][(Scanning /\ NextChar \in Quotes)
            => /\ stack' = stack
               /\ console' = console
               /\ pc' = "for_char"
               /\ ~in_string => (in_string' /\ string_char' = NextChar)
               /\ (in_string /\ NextChar # string_char)
                    => (in_string' /\ string_char' = string_char)]_vars
    /\ [](in_string => string_char \in Quotes)

\* the other quote has been scanned inside a string that holds an opener, with
\* an opener on the stack
C15_Witness ==
    /\ ScanDone
    /\ file = <<"(", "\"", "'", "]">>
    /\ in_string
    /\ string_char = "\""
    /\ Result = UnclosedOpeners("(", 1, 1, 1)

(* ---------------------------- C16 -------------------------------------- *)
\* C16: the '//' test comes before the string test: a '//' scanned in string
\* mode ends the line, what follows it on the line, a closing quote included,
\* is not inspected, and the next line starts in string mode with the same
\* recorded quote; the lines '"//"' and '(' are Balanced.
C16_CommentInsideString ==
    /\ [][(ScanningSlashSlash /\ in_string)
            => /\ pc' = "for_line"
               /\ in_string' /\ string_char' = string_char
               /\ stack' = stack /\ console' = console]_vars
    /\ [][(pc = "for_line" /\ i + 1 < Len(lines))
            => /\ pc' = "for_char" /\ j' = -1
               /\ in_string' = in_string /\ string_char' = string_char]_vars
    /\ []((ScanDone /\ file = <<"\"", "/", "/", "\"">>)
            => (in_string /\ string_char = "\"" /\ Len(visited) = 2))
    /\ ScanResult(readlines(<<"\"", "/", "/", "\"", Newline, "(">>)) = Balanced

\* a '//' inside a string has hidden the quote that would have closed it
C16_Witness ==
    /\ ScanDone
    /\ file = <<"'", "/", "/", "'">>
    /\ Len(visited) = 2
    /\ in_string
    /\ Result = Balanced

(* ---------------------------- C17 -------------------------------------- *)
NoSlash(ls) == \A l \in 1..Len(ls) : \A c \in 1..Len(ls[l]) : ls[l][c] # "/"

\* C17: for a file with no quote character and no '/', the result is Balanced
\* if and only if its delimiter characters are properly nested; a surplus
\* closer, a wrongly-typed closer and an unclosed opener are never Balanced.
C17_BalancedIffNested ==
    /\ []((ScanDone /\ NoQuote(lines) /\ NoSlash(lines))
            => (Result = Balanced <=> WellNested(DelimitersOf(lines))))
    /\ ScanResult(readlines(<<"(", "[", "]", "{", ")", "}">>)).kind = "MismatchedCloser"

\* two pairs that cross are not Balanced
C17_Witness ==
    /\ ScanDone
    /\ DelimitersOf(lines) = <<"(", "[", ")", "]">>
    /\ Len(lines) = 1
    /\ Result = MismatchedCloser(")", 1, 3, "]", 1, 2)

(* ---------------------------- C18 -------------------------------------- *)
\* the line and column stored in a stack record
PositionOf(rec) == <<rec[2], rec[3]>>

\* C18: every stack record holds an opening symbol with a line >= 1 and a
\* column >= 1 that are where this opener stands in the file and where it was
\* examined outside string context, and the records are in strictly increasing
\* (line, column) order from bottom to top, so the top record is the opener
\* examined last among those on the stack.
C18_StackRecords ==
    /\ \A r \in 1..Len(stack) :
          /\ stack[r][1] \in Openers
          /\ stack[r][2] >= 1 /\ stack[r][3] >= 1
          /\ stack[r][2] <= Len(lines) /\ stack[r][3] <= Len(lines[stack[r][2]])
          /\ lines[stack[r][2]][stack[r][3]] = stack[r][1]
          /\ \E v \in 1..Len(visited) : visited[v] = <<stack[r][2], stack[r][3], FALSE>>
    /\ \A a, b \in 1..Len(stack) :
          a < b => Before(PositionOf(stack[a]), PositionOf(stack[b]))

\* three openers are on the stack, the top one from the second line, while the
\* scan is still going on
C18_Witness ==
    /\ pc = "for_char"
    /\ Len(stack) = 3
    /\ stack[1][2] = 1
    /\ stack[3][2] = 2

(* ---------------------------- C19 -------------------------------------- *)
\* C19: the 'inside line comment' flag is false in every reachable state:
\* comments are skipped by leaving the line, so 'comment and string both
\* active' and 'comment carried over to the next line' do not occur.
C19_CommentFlagNeverSet == ~in_comment

\* a scan has left a '//' line, entered a string on the next line and returned
C19_Witness ==
    /\ ScanDone
    /\ file = <<"/", "/", Newline, "'">>
    /\ in_string
    /\ ~in_comment

====
